---- MODULE Spec2Model ----
(***************************************************************************)
(* The Sentinel: the Verification Loop (run_verification_loop) and the Fix *)
(* Pipeline (analyze_vibe), with the gateways they call modelled as        *)
(* nondeterministic collaborators.                                         *)
(***************************************************************************)
EXTENDS Integers, Sequences, FiniteSets, TLC

(***************************************************************************)
(* Bounds of the model                                                     *)
(***************************************************************************)
\* largest value of VerificationLoopService.max_iterations that is explored
MaxIterationsBound == 3
\* number of run_verification_loop invocations that may exist for the one PR
NumLoops == 2
\* max_iterations of the service when several invocations are explored
ConcIterations == 1
\* largest number of commit statuses / of check runs on the PR head commit
MaxChecks == 1

(***************************************************************************)
(* Program constants                                                       *)
(***************************************************************************)
poll_timeout == 300
poll_interval == 15

Procs == 1..NumLoops

\* the file contents that occur: the code the PR was opened with and the
\* corrected_code values the model may answer ("" is what self_correct puts
\* in for a missing field)
OriginalCode == "code0"
CorrectedCodes == {"", "code1", "code2"}

CIStates == {"pending", "success", "failure", "error"}
Conclusions == {"none", "success", "failure", "cancelled"}

RECURSIVE SeqsUpTo(_, _)
SeqsUpTo(S, n) ==
    IF n = 0 THEN {<<>>}
    ELSE LET shorter == SeqsUpTo(S, n - 1)
         IN  shorter \cup {Append(s, x) : s \in {t \in shorter : Len(t) = n - 1}, x \in S}

RECURSIVE MapSeq(_, _)
MapSeq(Op(_), s) ==
    IF s = <<>> THEN <<>> ELSE <<Op(Head(s))>> \o MapSeq(Op, Tail(s))

\* dict.get(key, default)
Get(d, k, default) == IF k \in DOMAIN d THEN d[k] ELSE default

(***************************************************************************)
(* Repository Gateway: CI status                                           *)
(***************************************************************************)
\* GitHubService.map_conclusion_to_state
map_conclusion_to_state(conclusion) ==
    IF conclusion = "none" THEN "pending"
    ELSE IF conclusion = "success" THEN "success"
    ELSE IF conclusion = "failure" THEN "failure"
    ELSE "error"

\* GitHubService.get_pr_status: the dict built from what the hosting platform
\* answers for the head commit (combined state, commit statuses, check runs)
get_pr_status(combined_state, commit_statuses, check_runs) ==
    [state    |-> combined_state,
     statuses |-> commit_statuses \o MapSeq(map_conclusion_to_state, check_runs)]

\* every answer get_pr_status can give
PRStatuses ==
    {get_pr_status(s, cs, cr) :
        s \in CIStates, cs \in SeqsUpTo(CIStates, MaxChecks),
        cr \in SeqsUpTo(Conclusions, MaxChecks)}

IsFailedRun(conclusion) == conclusion \in {"failure", "error"}

\* GitHubService.get_check_logs: one log entry per failed check run
get_check_logs(check_runs) == SelectSeq(check_runs, IsFailedRun)

NoStatus == [state |-> "none", statuses |-> <<>>]

(***************************************************************************)
(* Reasoning Gateway: self_correct                                         *)
(***************************************************************************)
CorrectionFields == {"error_analysis", "corrected_code", "changes_made"}

\* what _parse_json_response can hand back for a parseable answer: a dict with
\* any subset of the three fields
ParsedCorrections ==
    UNION {[K -> CorrectedCodes \ {""}] : K \in SUBSET CorrectionFields}

\* GeminiService.self_correct after parsing: missing fields are filled in
self_correct(parsed) ==
    [f \in CorrectionFields |->
        IF f \in DOMAIN parsed THEN parsed[f]
        ELSE IF f # "error_analysis" THEN "" ELSE "Unknown error"]

(***************************************************************************)
(* State                                                                   *)
(***************************************************************************)
VARIABLES
    max_iterations,   \* VerificationLoopService.max_iterations
    pc,               \* position of each run_verification_loop invocation
    running,          \* the invocation the event loop is executing, 0 if none
    iteration,        \* local of run_verification_loop
    current_code,     \* local
    error_logs,       \* local
    status,           \* local
    corrected_code,   \* local
    elapsed,          \* seconds since start_time in wait_for_ci_completion
    result,           \* <<>> or <<the VerificationResult returned>>
    raised,           \* "" or the exception that left run_verification_loop
    cancel,           \* "" or the suspension at which a cancellation arrived
    branch_content,   \* content of file_path on the PR branch
    n_await_ci,       \* calls of wait_for_ci_completion per invocation
    n_get_logs,       \* calls of get_check_logs per invocation
    n_self_correct,   \* calls of self_correct per invocation
    n_commits,        \* calls of commit_file_changes per invocation
    has_corrected_code, \* whether the last parsed correction had the field
    github_calls      \* the calls each invocation has made on self.github

loopVars == <<max_iterations, pc, running, iteration, current_code, error_logs,
              status, corrected_code, elapsed, result, raised, cancel,
              branch_content, n_await_ci, n_get_logs, n_self_correct,
              n_commits, has_corrected_code, github_calls>>

VARIABLES
    fpc,                   \* position of the analyze_vibe request
    video,                 \* <<>> (None) or <<filename of the upload>>
    images,                \* filenames of the uploaded images
    deployed_url,          \* <<>> (None) or <<the form value>>
    temp_dir,              \* "none", "created", "removed"
    screenshots_captured,  \* <<>> (None) or <<the list of captured paths>>
    image_paths,           \* local
    video_path,            \* <<>> (None) or <<path>>
    repo_files,            \* the paths of the repository that have content
    relevant_files,        \* local
    next_file,             \* index of the for loop over relevant_files[:10]
    code_context,          \* keys of the dict, in insertion order
    analysis_result,       \* local
    branch_results,        \* per create_branch call: <<>> or <<the exception raised>>
    calls,                 \* the gateway calls made so far, in order
    outcomes,              \* per gateway call: how it ended
    api_ops,               \* the hosting-platform operations of the write calls
    pull_attempts,         \* per create_pull operation: its base and how it ended
    response               \* <<>> or <<what analyze_vibe returned or raised>>

pipeVars == <<fpc, video, images, deployed_url, temp_dir, screenshots_captured,
              image_paths, video_path, repo_files, relevant_files, next_file,
              code_context, analysis_result, branch_results, calls, outcomes,
              api_ops, pull_attempts, response>>

VARIABLES
    github_service_global,        \* _github_service: <<>> (None) or <<instance>>
    verification_service_global,  \* _verification_service: <<>> or <<instance>>
    rpc,                          \* position of each request that wants a loop
    req_github,                   \* the GitHubService each request was handed
    req_service                   \* the VerificationLoopService it was handed

svcVars == <<github_service_global, verification_service_global, rpc, req_github,
             req_service>>

vars == <<loopVars, pipeVars, svcVars>>

(***************************************************************************)
(* Verification Loop: VerificationLoopService.run_verification_loop        *)
(***************************************************************************)
VerificationResultCompletedCycles(success, iterations, final_status, logs, code, error_message) ==
    [success |-> success, iterations |-> IF success THEN iterations - 1 ELSE iterations,
     final_status |-> final_status, error_logs |-> logs, corrected_code |-> code,
     error_message |-> error_message]

VerificationResultOriginalCode(success, iterations, final_status, logs, code, error_message) ==
    [success |-> success, iterations |-> iterations, final_status |-> final_status,
     error_logs |-> logs, corrected_code |-> OriginalCode,
     error_message |-> error_message]

\* the dataclass VerificationResult
VerificationResult(success, iterations, final_status, logs, code, error_message) ==
    [success |-> success, iterations |-> iterations, final_status |-> final_status,
     error_logs |-> logs, corrected_code |-> code, error_message |-> error_message]

\* the coroutine of invocation p can execute: the event loop is free or is
\* already executing p (the loop body between two awaits is not preempted)
CanRun(p) == running \in {0, p}

\* an exception leaves run_verification_loop: nothing in it catches
Raise(p, exception) ==
    /\ pc' = [pc EXCEPT ![p] = "raised"]
    /\ raised' = [raised EXCEPT ![p] = exception]
    /\ running' = 0

ReturnKeepsRunning(p, r) ==
    /\ pc' = pc
    /\ result' = [result EXCEPT ![p] = <<r>>]
    /\ running' = 0

\* a return statement of run_verification_loop
Return(p, r) ==
    /\ pc' = [pc EXCEPT ![p] = "returned"]
    /\ result' = [result EXCEPT ![p] = <<r>>]
    /\ running' = 0

\* the arguments run_verification_loop is invoked with; lines 65-72
LoopArgs == [pr_number |-> "pr_number", branch |-> "branch", file_path |-> "file_path"]

\* a call self.github.<operation>(repo_url, ...) and what it is aimed at
GithubCall(operation, target) == [operation |-> operation, target |-> target]

\* run_verification_loop is invoked: lines 86-88
Invoke(p) ==
    /\ UNCHANGED <<pipeVars, svcVars>>
    /\ pc[p] = "idle"
    /\ CanRun(p)
    /\ iteration' = [iteration EXCEPT ![p] = 0]
    /\ current_code' = [current_code EXCEPT ![p] = OriginalCode]
    /\ error_logs' = [error_logs EXCEPT ![p] = <<>>]
    /\ pc' = [pc EXCEPT ![p] = "loop_test"]
    /\ running' = p
    /\ UNCHANGED <<has_corrected_code, github_calls,
                   max_iterations, status, corrected_code, elapsed, result, raised,
                   cancel, branch_content, n_await_ci, n_get_logs,
                   n_self_correct, n_commits>>

LoopGuardOffByOne(i, max) == i <= max

LoopGuardOneShort(i, max) == i < max - 1

\* the guard of the while loop
LoopGuard(i, max) == i < max

\* while iteration < self.max_iterations: iteration += 1, then the call of
\* wait_for_ci_completion (start_time is taken); lines 90-94
LoopEnter(p) ==
    /\ UNCHANGED <<pipeVars, svcVars>>
    /\ pc[p] = "loop_test"
    /\ CanRun(p)
    /\ LoopGuard(iteration[p], max_iterations)
    /\ iteration' = [iteration EXCEPT ![p] = @ + 1]
    /\ elapsed' = [elapsed EXCEPT ![p] = 0]
    /\ n_await_ci' = [n_await_ci EXCEPT ![p] = @ + 1]
    /\ github_calls' = [github_calls EXCEPT ![p] =
            @ \cup {GithubCall("wait_for_ci_completion", <<LoopArgs.pr_number>>)}]
    /\ pc' = [pc EXCEPT ![p] = "await_ci"]
    /\ running' = p
    /\ UNCHANGED <<has_corrected_code,
                   max_iterations, current_code, error_logs, status, corrected_code,
                   result, raised, cancel, branch_content, n_get_logs,
                   n_self_correct, n_commits>>

\* the loop ends without success: lines 152-160
LoopExhausted(p) ==
    /\ UNCHANGED <<pipeVars, svcVars>>
    /\ pc[p] = "loop_test"
    /\ CanRun(p)
    /\ ~LoopGuard(iteration[p], max_iterations)
    /\ Return(p, VerificationResult(FALSE, iteration[p], "timeout", error_logs[p],
                                    current_code[p], "max iterations reached"))
    /\ UNCHANGED <<has_corrected_code, github_calls,
                   max_iterations, iteration, current_code, error_logs, status,
                   corrected_code, elapsed, raised, cancel, branch_content,
                   n_await_ci, n_get_logs, n_self_correct, n_commits>>

WaitPollReturnsAny(p) ==
    /\ UNCHANGED <<pipeVars, svcVars>>
    /\ pc[p] = "await_ci"
    /\ running = p
    /\ elapsed[p] < poll_timeout
    /\ \E s \in PRStatuses :
        /\ status' = [status EXCEPT ![p] = s]
        /\ pc' = [pc EXCEPT ![p] = "check_status"]
        /\ elapsed' = [elapsed EXCEPT ![p] = 0]
    /\ UNCHANGED <<has_corrected_code, github_calls,
                   max_iterations, running, iteration, current_code, error_logs,
                   corrected_code, result, raised, cancel, branch_content,
                   n_await_ci, n_get_logs, n_self_correct, n_commits>>

\* wait_for_ci_completion, one pass of its while loop: a poll, then either
\* the return of a non-pending status (assigned to the loop's status) or
\* time.sleep(poll_interval); a pending status stays a local of the callee
WaitPoll(p) ==
    /\ UNCHANGED <<pipeVars, svcVars>>
    /\ pc[p] = "await_ci"
    /\ running = p
    /\ elapsed[p] < poll_timeout
    /\ \E s \in PRStatuses :
        IF s.state # "pending"
        THEN /\ status' = [status EXCEPT ![p] = s]
             /\ pc' = [pc EXCEPT ![p] = "check_status"]
             /\ elapsed' = [elapsed EXCEPT ![p] = 0]
        ELSE /\ elapsed' = [elapsed EXCEPT ![p] = @ + poll_interval]
             /\ UNCHANGED <<pc, status>>
    /\ UNCHANGED <<has_corrected_code, github_calls,
                   max_iterations, running, iteration, current_code, error_logs,
                   corrected_code, result, raised, cancel, branch_content,
                   n_await_ci, n_get_logs, n_self_correct, n_commits>>

\* wait_for_ci_completion after the timeout: it returns one last poll
WaitTimeout(p) ==
    /\ UNCHANGED <<pipeVars, svcVars>>
    /\ pc[p] = "await_ci"
    /\ running = p
    /\ elapsed[p] >= poll_timeout
    /\ \E s \in PRStatuses : status' = [status EXCEPT ![p] = s]
    /\ pc' = [pc EXCEPT ![p] = "check_status"]
    /\ elapsed' = [elapsed EXCEPT ![p] = 0]
    /\ UNCHANGED <<has_corrected_code, github_calls,
                   max_iterations, running, iteration, current_code, error_logs,
                   corrected_code, result, raised, cancel, branch_content,
                   n_await_ci, n_get_logs, n_self_correct, n_commits>>

\* get_pr_status raises inside wait_for_ci_completion
WaitRaises(p) ==
    /\ UNCHANGED <<pipeVars, svcVars>>
    /\ pc[p] = "await_ci"
    /\ running = p
    /\ Raise(p, "wait_for_ci_completion")
    /\ elapsed' = [elapsed EXCEPT ![p] = 0]
    /\ UNCHANGED <<has_corrected_code, github_calls,
                   max_iterations, iteration, current_code, error_logs, status,
                   corrected_code, result, cancel, branch_content,
                   n_await_ci, n_get_logs, n_self_correct, n_commits>>

IsSuccessWrongWord(s) == s.state = "completed"

\* if status["state"] == "success": return ...; lines 101-109
IsSuccess(s) == s.state = "success"

CheckSuccess(p) ==
    /\ UNCHANGED <<pipeVars, svcVars>>
    /\ pc[p] = "check_status"
    /\ running = p
    /\ IsSuccess(status[p])
    /\ Return(p, VerificationResult(TRUE, iteration[p], "success", <<>>,
                                    current_code[p], ""))
    /\ UNCHANGED <<has_corrected_code, github_calls,
                   max_iterations, iteration, current_code, error_logs, status,
                   corrected_code, elapsed, raised, cancel, branch_content,
                   n_await_ci, n_get_logs, n_self_correct, n_commits>>

NoErrorLogsNever(logs) == FALSE

\* if not error_logs: an empty list is false; line 113
NoErrorLogs(logs) == logs = <<>>

\* error_logs = get_check_logs(...); without logs the loop returns, with
\* logs it calls self_correct and is suspended in the await; lines 111-128.
\* status is not read again before the next wait_for_ci_completion assigns
\* it, so the model forgets its value here.
InspectFailure(p) ==
    /\ UNCHANGED <<pipeVars, svcVars>>
    /\ pc[p] = "check_status"
    /\ running = p
    /\ ~IsSuccess(status[p])
    /\ n_get_logs' = [n_get_logs EXCEPT ![p] = @ + 1]
    /\ github_calls' = [github_calls EXCEPT ![p] =
            @ \cup {GithubCall("get_check_logs", <<LoopArgs.pr_number>>)}]
    /\ \E check_runs \in SeqsUpTo(Conclusions \cup {"error"}, MaxChecks) :
        LET logs == get_check_logs(check_runs) IN
        /\ error_logs' = [error_logs EXCEPT ![p] = logs]
        /\ IF NoErrorLogs(logs)
           THEN /\ Return(p, VerificationResult(FALSE, iteration[p], status[p].state,
                                    status[p].statuses, current_code[p],
                                    "CI failed but no specific error logs found"))
                /\ UNCHANGED <<n_self_correct, status>>
           ELSE /\ pc' = [pc EXCEPT ![p] = "self_correct"]
                /\ n_self_correct' = [n_self_correct EXCEPT ![p] = @ + 1]
                /\ running' = 0
                /\ status' = [status EXCEPT ![p] = NoStatus]
                /\ UNCHANGED result
    /\ UNCHANGED <<has_corrected_code,
                   max_iterations, iteration, current_code, corrected_code,
                   elapsed, raised, cancel, branch_content, n_await_ci, n_commits>>

\* get_check_logs raises
InspectRaises(p) ==
    /\ UNCHANGED <<pipeVars, svcVars>>
    /\ pc[p] = "check_status"
    /\ running = p
    /\ ~IsSuccess(status[p])
    /\ n_get_logs' = [n_get_logs EXCEPT ![p] = @ + 1]
    /\ github_calls' = [github_calls EXCEPT ![p] =
            @ \cup {GithubCall("get_check_logs", <<LoopArgs.pr_number>>)}]
    /\ Raise(p, "get_check_logs")
    /\ UNCHANGED <<has_corrected_code,
                   max_iterations, iteration, current_code, error_logs, status,
                   corrected_code, elapsed, result, cancel, branch_content,
                   n_await_ci, n_self_correct, n_commits>>

\* the await of self_correct completes with a correction; line 130
Correct(p) ==
    /\ UNCHANGED <<pipeVars, svcVars>>
    /\ pc[p] = "self_correct"
    /\ CanRun(p)
    /\ cancel[p] = ""
    /\ \E parsed \in ParsedCorrections :
        /\ corrected_code' = [corrected_code EXCEPT ![p] =
                Get(self_correct(parsed), "corrected_code", current_code[p])]
        /\ has_corrected_code' = [has_corrected_code EXCEPT ![p] =
                "corrected_code" \in DOMAIN parsed]
    /\ pc' = [pc EXCEPT ![p] = "commit"]
    /\ running' = p
    /\ UNCHANGED <<github_calls,
                   max_iterations, iteration, current_code, error_logs, status,
                   elapsed, result, raised, cancel, branch_content, n_await_ci,
                   n_get_logs, n_self_correct, n_commits>>

\* self_correct raises: the model call fails, or _parse_json_response finds
\* no JSON in the answer (ValueError)
CorrectRaises(p) ==
    /\ UNCHANGED <<pipeVars, svcVars>>
    /\ pc[p] = "self_correct"
    /\ CanRun(p)
    /\ cancel[p] = ""
    /\ Raise(p, "self_correct")
    /\ UNCHANGED <<has_corrected_code, github_calls,
                   max_iterations, iteration, current_code, error_logs, status,
                   corrected_code, elapsed, result, cancel, branch_content,
                   n_await_ci, n_get_logs, n_self_correct, n_commits>>

RecommitKeepsCode(p) ==
    /\ UNCHANGED <<pipeVars, svcVars>>
    /\ pc[p] = "commit"
    /\ running = p
    /\ n_commits' = [n_commits EXCEPT ![p] = @ + 1]
    /\ github_calls' = [github_calls EXCEPT ![p] =
            @ \cup {GithubCall("commit_file_changes",
                               <<LoopArgs.branch, LoopArgs.file_path>>)}]
    /\ branch_content' = corrected_code[p]
    /\ pc' = [pc EXCEPT ![p] = "settle"]
    /\ running' = 0
    /\ UNCHANGED <<has_corrected_code,
                   max_iterations, iteration, current_code, error_logs, status,
                   corrected_code, elapsed, result, raised, cancel, n_await_ci,
                   n_get_logs, n_self_correct>>

RecommitOnBaseBranch(p) ==
    /\ UNCHANGED <<pipeVars, svcVars>>
    /\ pc[p] = "commit"
    /\ running = p
    /\ n_commits' = [n_commits EXCEPT ![p] = @ + 1]
    /\ github_calls' = [github_calls EXCEPT ![p] =
            @ \cup {GithubCall("commit_file_changes",
                               <<"main", LoopArgs.file_path>>)}]
    /\ branch_content' = corrected_code[p]
    /\ current_code' = [current_code EXCEPT ![p] = corrected_code[p]]
    /\ pc' = [pc EXCEPT ![p] = "settle"]
    /\ running' = 0
    /\ UNCHANGED <<has_corrected_code,
                   max_iterations, iteration, error_logs, status, corrected_code,
                   elapsed, result, raised, cancel, n_await_ci, n_get_logs, n_self_correct>>

\* commit_file_changes, current_code = corrected_code, then the loop is
\* suspended in asyncio.sleep(5); lines 132-150
Recommit(p) ==
    /\ UNCHANGED <<pipeVars, svcVars>>
    /\ pc[p] = "commit"
    /\ running = p
    /\ n_commits' = [n_commits EXCEPT ![p] = @ + 1]
    /\ github_calls' = [github_calls EXCEPT ![p] =
            @ \cup {GithubCall("commit_file_changes",
                               <<LoopArgs.branch, LoopArgs.file_path>>)}]
    /\ branch_content' = corrected_code[p]
    /\ current_code' = [current_code EXCEPT ![p] = corrected_code[p]]
    /\ pc' = [pc EXCEPT ![p] = "settle"]
    /\ running' = 0
    /\ UNCHANGED <<has_corrected_code,
                   max_iterations, iteration, error_logs, status, corrected_code,
                   elapsed, result, raised, cancel, n_await_ci, n_get_logs, n_self_correct>>

\* commit_file_changes raises
RecommitRaises(p) ==
    /\ UNCHANGED <<pipeVars, svcVars>>
    /\ pc[p] = "commit"
    /\ running = p
    /\ n_commits' = [n_commits EXCEPT ![p] = @ + 1]
    /\ github_calls' = [github_calls EXCEPT ![p] =
            @ \cup {GithubCall("commit_file_changes",
                               <<LoopArgs.branch, LoopArgs.file_path>>)}]
    /\ Raise(p, "commit_file_changes")
    /\ UNCHANGED <<has_corrected_code,
                   max_iterations, iteration, current_code, error_logs, status,
                   corrected_code, elapsed, result, cancel, branch_content,
                   n_await_ci, n_get_logs, n_self_correct>>

\* asyncio.sleep(5) is over: back to the loop test
Settle(p) ==
    /\ UNCHANGED <<pipeVars, svcVars>>
    /\ pc[p] = "settle"
    /\ CanRun(p)
    /\ cancel[p] = ""
    /\ pc' = [pc EXCEPT ![p] = "loop_test"]
    /\ running' = p
    /\ UNCHANGED <<has_corrected_code, github_calls,
                   max_iterations, iteration, current_code, error_logs, status,
                   corrected_code, elapsed, result, raised, cancel, branch_content,
                   n_await_ci, n_get_logs, n_self_correct, n_commits>>

\* the places where the loop waits: the blocking CI poll (time.sleep inside
\* wait_for_ci_completion) and the two awaits
Suspension(p) ==
    IF pc[p] = "await_ci" /\ elapsed[p] > 0 THEN "ci_wait"
    ELSE IF pc[p] = "self_correct" THEN "correct"
    ELSE IF pc[p] = "settle" THEN "settle"
    ELSE ""

\* an external cancellation (task.cancel(), a timeout around the task)
\* arrives while the loop waits
Cancel(p) ==
    /\ UNCHANGED <<pipeVars, svcVars>>
    /\ cancel[p] = ""
    /\ Suspension(p) # ""
    /\ cancel' = [cancel EXCEPT ![p] = Suspension(p)]
    /\ UNCHANGED <<has_corrected_code, github_calls,
                   max_iterations, pc, running, iteration, current_code, error_logs,
                   status, corrected_code, elapsed, result, raised, branch_content,
                   n_await_ci, n_get_logs, n_self_correct, n_commits>>

\* asyncio delivers the cancellation at an await: CancelledError is thrown
\* into the coroutine, which does not catch it
CancelDelivered(p) ==
    /\ UNCHANGED <<pipeVars, svcVars>>
    /\ cancel[p] # ""
    /\ pc[p] \in {"self_correct", "settle"}
    /\ CanRun(p)
    /\ Raise(p, "CancelledError")
    /\ UNCHANGED <<has_corrected_code, github_calls,
                   max_iterations, iteration, current_code, error_logs, status,
                   corrected_code, elapsed, result, cancel, branch_content,
                   n_await_ci, n_get_logs, n_self_correct, n_commits>>

LoopStep(p) ==
    \/ Invoke(p)
    \/ LoopEnter(p)
    \/ LoopExhausted(p)
    \/ WaitPoll(p)
    \/ WaitTimeout(p)
    \/ WaitRaises(p)
    \/ CheckSuccess(p)
    \/ InspectFailure(p)
    \/ InspectRaises(p)
    \/ Correct(p)
    \/ CorrectRaises(p)
    \/ Recommit(p)
    \/ RecommitRaises(p)
    \/ Settle(p)
    \/ Cancel(p)
    \/ CancelDelivered(p)

InitLoopVars ==
    /\ max_iterations \in 0..MaxIterationsBound
    /\ pc = [p \in Procs |-> "idle"]
    /\ running = 0
    /\ iteration = [p \in Procs |-> 0]
    /\ current_code = [p \in Procs |-> ""]
    /\ error_logs = [p \in Procs |-> <<>>]
    /\ status = [p \in Procs |-> NoStatus]
    /\ corrected_code = [p \in Procs |-> ""]
    /\ elapsed = [p \in Procs |-> 0]
    /\ result = [p \in Procs |-> <<>>]
    /\ raised = [p \in Procs |-> ""]
    /\ cancel = [p \in Procs |-> ""]
    /\ branch_content = OriginalCode
    /\ n_await_ci = [p \in Procs |-> 0]
    /\ n_get_logs = [p \in Procs |-> 0]
    /\ n_self_correct = [p \in Procs |-> 0]
    /\ n_commits = [p \in Procs |-> 0]
    /\ has_corrected_code = [p \in Procs |-> FALSE]
    /\ github_calls = [p \in Procs |-> {}]

(***************************************************************************)
(* Fix Pipeline: the request, the gateways' answers                        *)
(***************************************************************************)
\* number of paths the scout can name
NumPaths == 12
\* for file_path in relevant_files[:10]
MaxContextFiles == 10

VideoUploads == {<<>>, <<"">>, <<"bug.mp4">>}
ImageUploads == {<<>>, <<"">>, <<"a.png", "b.png">>}
DeployedUrls == {<<>>, <<"">>, <<"https://app.example">>}

\* URLCaptureService.capture_visual_context: the two screenshots it takes
CapturedScreenshots == <<"capture_full.png", "capture_viewport.png">>

Paths == 1..NumPaths

\* the repositories explored: which paths get_file_content finds content for
RepoWorlds == {{}, {1, 2}, {NumPaths}, Paths}

RECURSIVE Range(_, _)
Range(a, b) == IF a > b THEN <<>> ELSE <<a>> \o Range(a + 1, b)

\* the lists scout_files may return
ScoutLists == {<<>>, <<1>>, <<3, 1, 1, 2>>, Range(1, NumPaths)}

TakeAll(s, n) == s

\* s[:n]
Take(s, n) == SubSeq(s, 1, IF Len(s) < n THEN Len(s) ELSE n)

InSeq(x, s) == \E i \in 1..Len(s) : s[i] = x

\* the exceptions the Repository Gateway's calls can raise: str(e) as words
ErrForbidden  == [exc |-> "GithubException", status |-> 403,
                  text |-> <<"403", "Forbidden">>]
ErrNotFound   == [exc |-> "GithubException", status |-> 404,
                  text |-> <<"404", "Not", "Found">>]
ErrExists     == [exc |-> "GithubException", status |-> 422,
                  text |-> <<"422", "Reference", "already", "exists">>]
ErrConnection == [exc |-> "ConnectionError", status |-> 0,
                  text |-> <<"Max", "retries", "exceeded", "api.github.com">>]
\* a connection error that quotes the URL of a repository named acme/http-403
ErrConnectionUrl == [exc |-> "ConnectionError", status |-> 0,
                  text |-> <<"Max", "retries", "exceeded", "repos", "acme",
                             "http", "403", "git", "refs">>]

GithubExceptions == {ErrForbidden, ErrNotFound, ErrExists}
OtherExceptions == {ErrConnection, ErrConnectionUrl}
GatewayErrors == GithubExceptions \cup OtherExceptions

\* str.lower() on the words that occur
Lower(w) ==
    CASE w = "Forbidden" -> "forbidden"
      [] w = "Not" -> "not"
      [] w = "Found" -> "found"
      [] w = "Reference" -> "reference"
      [] w = "Max" -> "max"
      [] OTHER -> w

PermissionCheckNever(e) == FALSE

\* if "403" or "forbidden" in error_str: a non-empty literal is true
PermissionCheckAlways(e) == TRUE

\* error_str = str(e).lower(); "403" in error_str or "forbidden" in error_str
IsPermissionError(e) ==
    LET error_str == MapSeq(Lower, e.text)
    IN  InSeq("403", error_str) \/ InSeq("forbidden", error_str)

Op(name, base) == <<name, base>>

\* GitHubService.create_branch: every way the call can go, as the platform
\* operations it performs and the exception it ends with (<<>> if none)
create_branch(base_branch) ==
    \* get_repository raises
    {[ops |-> <<>>, err |-> <<e>>] : e \in {ErrNotFound, ErrConnection}}
    \* get_git_ref(base) raises something that is no GithubException
    \cup {[ops |-> <<Op("get_git_ref", base_branch)>>, err |-> <<e>>] :
            e \in OtherExceptions}
    \* the base exists: create_git_ref from it
    \cup {[ops |-> <<Op("get_git_ref", base_branch),
                    Op("create_git_ref", base_branch)>>, err |-> r] :
            r \in {<<>>} \cup {<<e>> : e \in GatewayErrors}}
    \* GithubException on the base: fallback to master inside the gateway
    \cup {[ops |-> <<Op("get_git_ref", base_branch), Op("get_git_ref", "master")>>,
           err |-> <<e>>] : e \in GatewayErrors}
    \cup {[ops |-> <<Op("get_git_ref", base_branch), Op("get_git_ref", "master"),
                    Op("create_git_ref", "master")>>, err |-> r] :
            r \in {<<>>} \cup {<<e>> : e \in GatewayErrors}}

\* GitHubService.commit_file_changes: update_file, or create_file after a
\* GithubException of get_contents/update_file
commit_file_changes ==
    {[ops |-> <<>>, err |-> <<e>>] : e \in {ErrConnection}}
    \cup {[ops |-> <<Op("update_file", "branch")>>, err |-> r] :
            r \in {<<>>, <<ErrConnection>>}}
    \cup {[ops |-> <<Op("create_file", "branch")>>, err |-> r] :
            r \in {<<>>} \cup {<<e>> : e \in {ErrForbidden, ErrConnection}}}
    \cup {[ops |-> <<Op("update_file", "branch"), Op("create_file", "branch")>>,
           err |-> r] : r \in {<<>>} \cup {<<e>> : e \in {ErrExists}}}

\* one create_pull operation and the exception it ended with (<<>> if none)
Attempt(base, err) == [base |-> base, err |-> err]

CreatePullRequestNoRetry(base_branch) ==
    {[ops |-> <<>>, err |-> <<e>>, attempts |-> <<>>] : e \in {ErrConnection}}
    \cup {[ops |-> <<Op("create_pull", base_branch)>>, err |-> r,
           attempts |-> <<Attempt(base_branch, r)>>] :
            r \in {<<>>} \cup {<<e>> : e \in GatewayErrors}}

\* GitHubService.create_pull_request: create_pull against base_branch, and
\* against master after a GithubException
create_pull_request(base_branch) ==
    {[ops |-> <<>>, err |-> <<e>>, attempts |-> <<>>] : e \in {ErrConnection}}
    \cup {[ops |-> <<Op("create_pull", base_branch)>>, err |-> r,
           attempts |-> <<Attempt(base_branch, r)>>] :
            r \in {<<>>} \cup {<<e>> : e \in OtherExceptions}}
    \cup {[ops |-> <<Op("create_pull", base_branch), Op("create_pull", "master")>>,
           err |-> r,
           attempts |-> <<Attempt(base_branch, <<first>>), Attempt("master", r)>>] :
            first \in GithubExceptions,
            r \in {<<>>} \cup {<<e>> : e \in {ErrExists, ErrConnection}}}

\* GitHubService.check_write_access: has_in_collaborators, False on any error
check_write_access(lookup) ==
    IF lookup = "error" THEN FALSE ELSE lookup = "collaborator"

\* the fix objects the model may answer: a dict with any of the two keys,
\* each empty or not (the empty dict also stands for null)
FixValues ==
    UNION {[K -> {"", "text"}] : K \in SUBSET {"file_path", "code"}}

AnalysisFields == {"analysis", "severity", "fix"}

\* GeminiService.analyze_vibe after parsing: missing fields are filled in
analyze_vibe(fields, fix) ==
    [analysis |-> IF "analysis" \in fields THEN "narrative" ELSE "Unknown",
     severity |-> IF "severity" \in fields THEN "High" ELSE "Unknown",
     fix      |-> IF "fix" \in fields THEN fix
                  ELSE [k \in {"file_path", "code"} |-> ""]]

NoAnalysis == [analysis |-> "", severity |-> "", fix |-> <<>>]

\* what analyze_vibe hands to the caller: an AnalyzeResponse or an
\* HTTPException
AnalyzeResponse(pr_url, captured, fix_path) ==
    [kind |-> "AnalyzeResponse", status_code |-> 200, detail |-> "",
     status |-> "success", pr_url |-> pr_url, screenshots_captured |-> captured,
     fix_file_path |-> fix_path]

HTTPException(status_code, detail) ==
    [kind |-> "HTTPException", status_code |-> status_code, detail |-> detail,
     status |-> "", pr_url |-> <<>>, screenshots_captured |-> <<>>,
     fix_file_path |-> ""]

Call(gateway, operation, argument) == <<gateway, operation, argument>>

(***************************************************************************)
(* Fix Pipeline: analyze_vibe                                              *)
(***************************************************************************)
request == <<video, images, deployed_url>>

\* analyze_vibe ends: the finally clause removes the temp directory
Finish(r) ==
    /\ response' = <<r>>
    /\ temp_dir' = IF temp_dir = "created" THEN "removed" ELSE temp_dir
    /\ fpc' = "done"

Fail(status_code, detail) == Finish(HTTPException(status_code, detail))

HasVisualInputUnchecked(v, imgs, url) == TRUE

\* has_visual_input; lines 101-103
has_visual_input(v, imgs, url) == v # <<>> \/ Len(imgs) > 0 \/ url # <<>>

\* lines 100-112
Validate ==
    /\ fpc = "validate"
    /\ IF ~has_visual_input(video, images, deployed_url)
       THEN Fail(400, "At least one visual input required")
       ELSE /\ temp_dir' = "created"
            /\ fpc' = "capture"
            /\ UNCHANGED response
    /\ UNCHANGED <<request, screenshots_captured, image_paths, video_path,
                   repo_files, relevant_files, next_file, code_context,
                   analysis_result, branch_results, calls, outcomes, api_ops,
                   pull_attempts,
                   loopVars, svcVars>>

CaptureFailureFatal ==
    /\ fpc = "capture"
    /\ IF deployed_url # <<>> /\ deployed_url[1] # ""
       THEN /\ calls' = Append(calls, Call("capture", "capture_visual_context",
                                           deployed_url[1]))
            /\ \/ /\ screenshots_captured' = <<CapturedScreenshots>>
                  /\ image_paths' = image_paths \o CapturedScreenshots
                  /\ outcomes' = Append(outcomes, "returned")
                  /\ fpc' = "save_uploads"
                  /\ UNCHANGED <<response, temp_dir>>
               \/ /\ outcomes' = Append(outcomes, "raised")
                  /\ Fail(500, "An unexpected error occurred")
                  /\ UNCHANGED <<screenshots_captured, image_paths>>
       ELSE /\ fpc' = "save_uploads"
            /\ UNCHANGED <<calls, outcomes, screenshots_captured, image_paths,
                           response, temp_dir>>
    /\ UNCHANGED <<request, video_path, repo_files, relevant_files,
                   next_file, code_context, analysis_result, branch_results,
                   api_ops, pull_attempts,
                   loopVars, svcVars>>

\* Step 1, lines 114-125: a failed capture is logged and skipped
Capture ==
    /\ fpc = "capture"
    /\ IF deployed_url # <<>> /\ deployed_url[1] # ""
       THEN /\ calls' = Append(calls, Call("capture", "capture_visual_context",
                                           deployed_url[1]))
            /\ \/ /\ screenshots_captured' = <<CapturedScreenshots>>
                  /\ image_paths' = image_paths \o CapturedScreenshots
                  /\ outcomes' = Append(outcomes, "returned")
               \/ /\ screenshots_captured' = <<>>
                  /\ outcomes' = Append(outcomes, "raised")
                  /\ UNCHANGED image_paths
       ELSE UNCHANGED <<calls, outcomes, screenshots_captured, image_paths>>
    /\ fpc' = "save_uploads"
    /\ UNCHANGED <<request, temp_dir, video_path, repo_files, relevant_files,
                   next_file, code_context, analysis_result, branch_results,
                   api_ops, response, pull_attempts,
                   loopVars, svcVars>>

NonEmpty(name) == name # ""

\* Steps 2 and 3, lines 127-142: uploads that have a filename are saved
SaveUploads ==
    /\ fpc = "save_uploads"
    /\ image_paths' = image_paths \o SelectSeq(images, NonEmpty)
    /\ video_path' = IF video # <<>> /\ video[1] # "" THEN video ELSE <<>>
    /\ fpc' = "services"
    /\ UNCHANGED <<request, temp_dir, screenshots_captured, repo_files,
                   relevant_files, next_file, code_context, analysis_result,
                   branch_results, calls, outcomes, api_ops, response, pull_attempts,
                   loopVars, svcVars>>

\* lines 144-183: the token is chosen and the GitHub service built
Services ==
    /\ fpc = "services"
    /\ \E token \in {"", "valid", "invalid"} :
        IF token = ""
        THEN /\ Fail(400, "No GitHub token available")
             /\ UNCHANGED <<calls, outcomes>>
        ELSE /\ calls' = Append(calls, Call("repository", "get_github_service", token))
             /\ outcomes' = Append(outcomes, IF token = "invalid" THEN "raised"
                                                                 ELSE "returned")
             /\ IF token = "invalid"
                THEN Fail(401, "Your GitHub token has expired or is invalid")
                ELSE /\ fpc' = "tree"
                     /\ UNCHANGED <<response, temp_dir>>
    /\ UNCHANGED <<request, screenshots_captured, image_paths, video_path,
                   repo_files, relevant_files, next_file, code_context,
                   analysis_result, branch_results, api_ops, pull_attempts,
                   loopVars, svcVars>>

\* Step 4, lines 185-192
Tree ==
    /\ fpc = "tree"
    /\ calls' = Append(calls, Call("repository", "get_file_tree", ""))
    /\ \/ /\ Fail(400, "Failed to fetch repository")
          /\ outcomes' = Append(outcomes, "raised")
          /\ UNCHANGED repo_files
       \/ /\ repo_files' \in RepoWorlds
          /\ outcomes' = Append(outcomes, "returned")
          /\ fpc' = "access"
          /\ UNCHANGED <<response, temp_dir>>
    /\ UNCHANGED <<request, screenshots_captured, image_paths, video_path,
                   relevant_files, next_file, code_context, analysis_result,
                   branch_results, api_ops, pull_attempts,
                   loopVars, svcVars>>

\* lines 194-209
Access ==
    /\ fpc = "access"
    /\ calls' = Append(calls, Call("repository", "check_write_access", ""))
    /\ \E lookup \in {"collaborator", "not_collaborator", "error"} :
        /\ outcomes' = Append(outcomes, lookup)
        /\ IF ~check_write_access(lookup)
           THEN Fail(403, "does not have write access to this repository")
           ELSE /\ fpc' = "scout"
                /\ UNCHANGED <<response, temp_dir>>
    /\ UNCHANGED <<request, screenshots_captured, image_paths, video_path,
                   repo_files, relevant_files, next_file, code_context,
                   analysis_result, branch_results, api_ops, pull_attempts,
                   loopVars, svcVars>>

\* Step 5, lines 211-215; the model call of scout_files is outside its try
Scout ==
    /\ fpc = "scout"
    /\ calls' = Append(calls, Call("reasoning", "scout_files", ""))
    /\ \/ /\ relevant_files' \in ScoutLists
          /\ next_file' = 1
          /\ fpc' = "fetch"
          /\ outcomes' = Append(outcomes, "returned")
          /\ UNCHANGED <<response, temp_dir>>
       \/ /\ Fail(500, "An unexpected error occurred")
          /\ outcomes' = Append(outcomes, "raised")
          /\ UNCHANGED <<relevant_files, next_file>>
    /\ UNCHANGED <<request, screenshots_captured, image_paths, video_path,
                   repo_files, code_context, analysis_result, branch_results,
                   api_ops, pull_attempts,
                   loopVars, svcVars>>

\* Step 6, lines 217-222, one pass of the for loop
Fetch ==
    /\ fpc = "fetch"
    /\ next_file <= Len(Take(relevant_files, MaxContextFiles))
    /\ LET file_path == relevant_files[next_file] IN
        /\ calls' = Append(calls, Call("repository", "get_file_content", file_path))
        /\ \/ /\ code_context' =
                    IF file_path \in repo_files /\ ~InSeq(file_path, code_context)
                    THEN Append(code_context, file_path) ELSE code_context
              /\ next_file' = next_file + 1
              /\ outcomes' = Append(outcomes, "returned")
              /\ UNCHANGED <<fpc, response, temp_dir>>
           \/ /\ Fail(500, "An unexpected error occurred")
              /\ outcomes' = Append(outcomes, "raised")
              /\ UNCHANGED <<code_context, next_file>>
    /\ UNCHANGED <<request, screenshots_captured, image_paths, video_path,
                   repo_files, relevant_files, analysis_result, branch_results,
                   api_ops, pull_attempts,
                   loopVars, svcVars>>

\* lines 224-228
FetchDone ==
    /\ fpc = "fetch"
    /\ next_file > Len(Take(relevant_files, MaxContextFiles))
    /\ IF code_context = <<>>
       THEN Fail(400, "Could not fetch any relevant code files")
       ELSE /\ fpc' = "analyze"
            /\ UNCHANGED <<response, temp_dir>>
    /\ UNCHANGED <<request, screenshots_captured, image_paths, video_path,
                   repo_files, relevant_files, next_file, code_context,
                   analysis_result, branch_results, calls, outcomes, api_ops,
                   pull_attempts,
                   loopVars, svcVars>>

\* Step 7, lines 230-245
Analyze ==
    /\ fpc = "analyze"
    /\ calls' = Append(calls,
            IF video_path # <<>>
            THEN Call("reasoning", "analyze_video_frames", video_path[1])
            ELSE Call("reasoning", "analyze_vibe",
                      IF image_paths # <<>> THEN "image_paths" ELSE "None"))
    /\ \/ /\ \E fields \in {AnalysisFields, {"analysis", "severity"}, {"fix"}},
                fix \in FixValues :
                analysis_result' = analyze_vibe(fields, fix)
          /\ fpc' = "validate_fix"
          /\ outcomes' = Append(outcomes, "returned")
          /\ UNCHANGED <<response, temp_dir>>
       \/ /\ Fail(500, "AI analysis failed")
          /\ outcomes' = Append(outcomes, "raised")
          /\ UNCHANGED analysis_result
    /\ UNCHANGED <<request, screenshots_captured, image_paths, video_path,
                   repo_files, relevant_files, next_file, code_context,
                   branch_results, api_ops, pull_attempts,
                   loopVars, svcVars>>

\* Python truthiness of fix.get(key)
Truthy(d, k) == k \in DOMAIN d /\ d[k] # ""

NoActionableFixPathOnly(fix) == DOMAIN fix = {} \/ ~Truthy(fix, "file_path")

\* not fix or not fix.get("file_path") or not fix.get("code"); line 249
NoActionableFix(fix) ==
    DOMAIN fix = {} \/ ~Truthy(fix, "file_path") \/ ~Truthy(fix, "code")

\* lines 247-263
ValidateFix ==
    /\ fpc = "validate_fix"
    /\ IF NoActionableFix(analysis_result.fix)
       THEN Finish(AnalyzeResponse(<<>>, screenshots_captured, ""))
       ELSE /\ fpc' = "branch_main"
            /\ UNCHANGED <<response, temp_dir>>
    /\ UNCHANGED <<request, screenshots_captured, image_paths, video_path,
                   repo_files, relevant_files, next_file, code_context,
                   analysis_result, branch_results, calls, outcomes, api_ops,
                   pull_attempts,
                   loopVars, svcVars>>

\* Step 8, lines 265-276: create_branch(repo_url, "main", branch_name)
BranchMain ==
    /\ fpc = "branch_main"
    /\ calls' = Append(calls, Call("repository", "create_branch", "main"))
    /\ \E run \in create_branch("main") :
        /\ api_ops' = api_ops \o run.ops
        /\ outcomes' = Append(outcomes, IF run.err = <<>> THEN "returned" ELSE "raised")
        /\ branch_results' = Append(branch_results, run.err)
        /\ IF run.err = <<>>
           THEN /\ fpc' = "commit"
                /\ UNCHANGED <<response, temp_dir>>
           ELSE IF IsPermissionError(run.err[1])
           THEN Fail(403, "GitHub token doesn't have write access to this repository")
           ELSE /\ fpc' = "branch_master"
                /\ UNCHANGED <<response, temp_dir>>
    /\ UNCHANGED <<request, screenshots_captured, image_paths, video_path,
                   repo_files, relevant_files, next_file, code_context,
                   analysis_result, pull_attempts,
                   loopVars, svcVars>>

\* lines 277-283: create_branch(repo_url, "master", branch_name)
BranchMaster ==
    /\ fpc = "branch_master"
    /\ calls' = Append(calls, Call("repository", "create_branch", "master"))
    /\ \E run \in create_branch("master") :
        /\ api_ops' = api_ops \o run.ops
        /\ outcomes' = Append(outcomes, IF run.err = <<>> THEN "returned" ELSE "raised")
        /\ branch_results' = Append(branch_results, run.err)
        /\ IF run.err = <<>>
           THEN /\ fpc' = "commit"
                /\ UNCHANGED <<response, temp_dir>>
           ELSE Fail(500, "Failed to create branch")
    /\ UNCHANGED <<request, screenshots_captured, image_paths, video_path,
                   repo_files, relevant_files, next_file, code_context,
                   analysis_result, pull_attempts,
                   loopVars, svcVars>>

CommitIgnoresFailure ==
    /\ fpc = "commit"
    /\ calls' = Append(calls, Call("repository", "commit_file_changes", "branch"))
    /\ \E run \in commit_file_changes :
        /\ api_ops' = api_ops \o run.ops
        /\ outcomes' = Append(outcomes, IF run.err = <<>> THEN "returned" ELSE "raised")
        /\ fpc' = "pull_request"
        /\ UNCHANGED <<response, temp_dir>>
    /\ UNCHANGED <<request, screenshots_captured, image_paths, video_path,
                   repo_files, relevant_files, next_file, code_context,
                   analysis_result, branch_results, pull_attempts,
                   loopVars, svcVars>>

\* lines 285-300
Commit ==
    /\ fpc = "commit"
    /\ calls' = Append(calls, Call("repository", "commit_file_changes", "branch"))
    /\ \E run \in commit_file_changes :
        /\ api_ops' = api_ops \o run.ops
        /\ outcomes' = Append(outcomes, IF run.err = <<>> THEN "returned" ELSE "raised")
        /\ IF run.err = <<>>
           THEN /\ fpc' = "pull_request"
                /\ UNCHANGED <<response, temp_dir>>
           ELSE Fail(500, "Failed to commit changes")
    /\ UNCHANGED <<request, screenshots_captured, image_paths, video_path,
                   repo_files, relevant_files, next_file, code_context,
                   analysis_result, branch_results, pull_attempts,
                   loopVars, svcVars>>

PullRequestRollsBack ==
    /\ fpc = "pull_request"
    /\ calls' = Append(calls, Call("repository", "create_pull_request", "main"))
    /\ \E run \in create_pull_request("main") :
        /\ pull_attempts' = pull_attempts \o run.attempts
        /\ outcomes' = Append(outcomes, IF run.err = <<>> THEN "returned" ELSE "raised")
        /\ IF run.err = <<>>
           THEN /\ api_ops' = api_ops \o run.ops
                /\ Finish(AnalyzeResponse(<<"pr.html_url">>, screenshots_captured,
                                          analysis_result.fix["file_path"]))
           ELSE /\ api_ops' = api_ops \o run.ops \o <<Op("delete_git_ref", "branch")>>
                /\ Fail(500, "Failed to create pull request")
    /\ UNCHANGED <<request, screenshots_captured, image_paths, video_path,
                   repo_files, relevant_files, next_file, code_context,
                   analysis_result, branch_results, loopVars, svcVars>>

\* Step 9 and the response, lines 302-349
PullRequest ==
    /\ fpc = "pull_request"
    /\ calls' = Append(calls, Call("repository", "create_pull_request", "main"))
    /\ \E run \in create_pull_request("main") :
        /\ pull_attempts' = pull_attempts \o run.attempts
        /\ api_ops' = api_ops \o run.ops
        /\ outcomes' = Append(outcomes, IF run.err = <<>> THEN "returned" ELSE "raised")
        /\ IF run.err = <<>>
           THEN Finish(AnalyzeResponse(<<"pr.html_url">>, screenshots_captured,
                                       analysis_result.fix["file_path"]))
           ELSE Fail(500, "Failed to create pull request")
    /\ UNCHANGED <<request, screenshots_captured, image_paths, video_path,
                   repo_files, relevant_files, next_file, code_context,
                   analysis_result, branch_results, loopVars, svcVars>>

PipelineStep ==
    \/ Validate
    \/ Capture
    \/ SaveUploads
    \/ Services
    \/ Tree
    \/ Access
    \/ Scout
    \/ Fetch
    \/ FetchDone
    \/ Analyze
    \/ ValidateFix
    \/ BranchMain
    \/ BranchMaster
    \/ Commit
    \/ PullRequest

\* the locals of analyze_vibe at its entry, lines 93-97
InitPipeVars ==
    /\ fpc = "validate"
    /\ temp_dir = "none"
    /\ screenshots_captured = <<>>
    /\ image_paths = <<>>
    /\ video_path = <<>>
    /\ repo_files = {}
    /\ relevant_files = <<>>
    /\ next_file = 1
    /\ code_context = <<>>
    /\ analysis_result = NoAnalysis
    /\ branch_results = <<>>
    /\ calls = <<>>
    /\ outcomes = <<>>
    /\ api_ops = <<>>
    /\ pull_attempts = <<>>
    /\ response = <<>>

(***************************************************************************)
(* The service singletons: get_github_service, get_verification_service    *)
(***************************************************************************)
\* number of requests that obtain a Verification Loop service
NumRequests == 3

Requests == 1..NumRequests

\* the credential of a request: the token of its own user
TokenOf(r) == r

\* GitHubService(token), VerificationLoopService(github_service, gemini_service);
\* get_gemini_service() is called without a key and is the same for all
GitHubService(token) == [token |-> token]
VerificationLoopService(github_service, gemini_service) ==
    [github |-> github_service, gemini |-> gemini_service]

\* get_github_service(token): a new instance when there is none or a token
\* is given
get_github_service(existing, token) ==
    IF existing = <<>> \/ token # 0 THEN <<GitHubService(token)>> ELSE existing

\* get_verification_service(github_service, gemini_service): the arguments
\* are used only when there is no instance yet
get_verification_service(existing, github_service, gemini_service) ==
    IF existing = <<>>
    THEN <<VerificationLoopService(github_service, gemini_service)>>
    ELSE existing

\* analyze.py line 167: the request builds its GitHub service from its token
ObtainGithub(r) ==
    /\ rpc[r] = "start"
    /\ github_service_global' = get_github_service(github_service_global, TokenOf(r))
    /\ req_github' = [req_github EXCEPT ![r] = github_service_global']
    /\ rpc' = [rpc EXCEPT ![r] = "has_github"]
    /\ UNCHANGED <<verification_service_global, req_service, loopVars, pipeVars>>

\* analyze.py line 331: the request asks for the Verification Loop service
\* with its own gateways
ObtainVerification(r) ==
    /\ rpc[r] = "has_github"
    /\ verification_service_global' =
            get_verification_service(verification_service_global,
                                     req_github[r][1], "gemini")
    /\ req_service' = [req_service EXCEPT ![r] = verification_service_global']
    /\ rpc' = [rpc EXCEPT ![r] = "has_service"]
    /\ UNCHANGED <<github_service_global, req_github, loopVars, pipeVars>>

\* the request is over (its loop, if any, keeps the service it was handed)
RequestEnds(r) ==
    /\ rpc[r] = "has_service"
    /\ rpc' = [rpc EXCEPT ![r] = "over"]
    /\ UNCHANGED <<github_service_global, verification_service_global, req_github,
                   req_service, loopVars, pipeVars>>

ServiceStep(r) == ObtainGithub(r) \/ ObtainVerification(r) \/ RequestEnds(r)

\* the module globals after import: both None
InitSvcVars ==
    /\ github_service_global = <<>>
    /\ verification_service_global = <<>>
    /\ rpc = [r \in Requests |-> "start"]
    /\ req_github = [r \in Requests |-> <<>>]
    /\ req_service = [r \in Requests |-> <<>>]

\* one request to /api/v1/analyze
InitPipeline ==
    /\ InitSvcVars
    /\ InitPipeVars
    /\ video \in VideoUploads
    /\ images \in ImageUploads
    /\ deployed_url \in DeployedUrls
    /\ InitLoopVars
    /\ max_iterations = MaxIterationsBound
NextPipeline == PipelineStep
SpecPipeline == InitPipeline /\ [][NextPipeline]_vars

\* one invocation of run_verification_loop
NoRequest ==
    /\ InitPipeVars
    /\ video = <<>>
    /\ images = <<>>
    /\ deployed_url = <<>>

InitLoop == InitLoopVars /\ NoRequest /\ InitSvcVars
NextLoop == LoopStep(1)
SpecLoop == InitLoop /\ [][NextLoop]_vars

\* the same invocation when the event loop keeps scheduling the coroutine
\* and every call it makes comes back (with an answer or an exception):
\* wait_for_ci_completion by its own timeout, the two awaits by completing
SpecLoopFair == SpecLoop /\ WF_vars(NextLoop)

\* invocations of run_verification_loop for the same (repo_url, pr_number),
\* scheduled on one event loop; nothing in get_verification_service or in
\* run_verification_loop refuses or delays the later ones
InitConc ==
    InitLoopVars /\ max_iterations = ConcIterations /\ NoRequest /\ InitSvcVars

\* requests in any interleaving, each obtaining its gateways and then the
\* Verification Loop service
InitService ==
    InitLoopVars /\ max_iterations = MaxIterationsBound /\ NoRequest /\ InitSvcVars
NextService == \E r \in Requests : ServiceStep(r)
SpecService == InitService /\ [][NextService]_vars
NextConc == \E p \in Procs : LoopStep(p)
SpecConc == InitConc /\ [][NextConc]_vars

(***************************************************************************)
(* Claims about the Verification Loop                                      *)
(***************************************************************************)
Returned(p) == pc[p] = "returned"
TheResult(p) == result[p][1]
Exhausted(p) == Returned(p) /\ TheResult(p).error_message = "max iterations reached"
NoDiagnostics(p) ==
    Returned(p) /\ TheResult(p).error_message = "CI failed but no specific error logs found"
Succeeded(p) == Returned(p) /\ TheResult(p).success

\* C1: in every run, for every max_iterations >= 0, the calls of self_correct
\* and the corrective commits are each at most max_iterations, and so is the
\* iterations field of the returned VerificationResult.
C1_BudgetRespected ==
    \A p \in Procs :
        /\ n_self_correct[p] <= max_iterations
        /\ n_commits[p] <= max_iterations
        /\ Returned(p) => TheResult(p).iterations <= max_iterations

\* a run that spent its whole budget of at least two corrections
C1_Witness ==
    \E p \in Procs :
        /\ Returned(p)
        /\ max_iterations >= 2
        /\ n_self_correct[p] = max_iterations
        /\ n_commits[p] = max_iterations
        /\ TheResult(p).iterations = max_iterations

\* C2, as stated: at every terminal outcome the iterations field equals the
\* number of correction cycles (self_correct followed by a commit) executed.
C2_IterationsEqualCycles ==
    \A p \in Procs : Returned(p) => TheResult(p).iterations = n_commits[p]

\* C2, amended: the iterations field equals the number of loop iterations
\* begun (Await-CI calls); it equals the number of correction cycles for
\* Exhausted and is one more than that for Succeeded and for Failed with no
\* diagnostics.
C2_IterationsCountRounds ==
    \A p \in Procs :
        Returned(p) =>
            /\ TheResult(p).iterations = n_await_ci[p]
            /\ n_self_correct[p] = n_commits[p]
            /\ Exhausted(p) => TheResult(p).iterations = n_commits[p]
            /\ Succeeded(p) \/ NoDiagnostics(p) =>
                    TheResult(p).iterations = n_commits[p] + 1

\* a run that succeeds after one correction cycle: iterations is 2
C2_Witness ==
    \E p \in Procs :
        Succeeded(p) /\ n_commits[p] = 1 /\ TheResult(p).iterations = 2

\* C3, as stated: a failing collaborator call never makes
\* run_verification_loop raise; the condition is reported in a
\* VerificationResult.
C3_NeverRaises ==
    \A p \in Procs :
        raised[p] \notin {"wait_for_ci_completion", "get_check_logs",
                          "self_correct", "commit_file_changes"}

\* C4, as stated: at most one invocation of the loop for the PR is between
\* its start and its return at any time.
Active(p) == pc[p] \notin {"idle", "returned", "raised"}

C4_OneLoopPerPR == Cardinality({p \in Procs : Active(p)}) <= 1

CollaboratorFailed(p) ==
    raised[p] \in {"wait_for_ci_completion", "get_check_logs", "self_correct",
                   "commit_file_changes"}

\* C5, as stated: a loop that a cancellation reached in the CI-poll wait or in
\* the settle delay ends with a VerificationResult whose outcome is Cancelled
\* (runs in which a collaborator call failed are left aside).
C5_CancelledResult ==
    \A p \in Procs :
        (cancel[p] \in {"ci_wait", "settle"} /\ ~Active(p) /\ ~CollaboratorFailed(p)) =>
            (Returned(p) /\ TheResult(p).final_status = "cancelled")

\* C10: when the first Await-CI of a run reports success, the loop has called
\* neither get_check_logs nor self_correct nor commit_file_changes, and what
\* it does next is return success with iterations 1 and the initial code.
C10_FirstPollSuccess ==
    \A p \in Procs :
        (n_await_ci[p] = 1 /\ status[p].state = "success") =>
            /\ n_self_correct[p] = 0
            /\ n_get_logs[p] = 0
            /\ n_commits[p] = 0
            /\ \/ pc[p] = "check_status"
               \/ /\ Returned(p)
                  /\ TheResult(p).success
                  /\ TheResult(p).iterations = 1
                  /\ TheResult(p).corrected_code = OriginalCode
                  /\ TheResult(p).final_status = "success"

C10_Witness ==
    \E p \in Procs :
        /\ Returned(p)
        /\ n_await_ci[p] = 1
        /\ status[p].state = "success"
        /\ TheResult(p).success

\* get_check_logs has returned in the current iteration with an empty list
EmptyLogsObserved(p) ==
    /\ n_get_logs[p] >= 1
    /\ n_get_logs[p] = n_await_ci[p]
    /\ raised[p] # "get_check_logs"
    /\ error_logs[p] = <<>>

\* C11: in an iteration where the awaited CI state is not success and
\* get_check_logs returns an empty list, the loop returns at once:
\* success=false, final_status the observed CI state, the no-diagnostics
\* message, the working code unchanged; self_correct and commit_file_changes
\* have not been called in that iteration. The no-diagnostics result is
\* returned in no other case.
C11_NoDiagnostics ==
    \A p \in Procs :
        /\ EmptyLogsObserved(p) =>
            /\ NoDiagnostics(p)
            /\ ~TheResult(p).success
            /\ status[p].state # "success"
            /\ TheResult(p).final_status = status[p].state
            /\ TheResult(p).error_logs = status[p].statuses
            /\ TheResult(p).iterations = n_await_ci[p]
            /\ TheResult(p).corrected_code = current_code[p]
            /\ n_self_correct[p] = n_await_ci[p] - 1
            /\ n_commits[p] = n_await_ci[p] - 1
        /\ NoDiagnostics(p) => EmptyLogsObserved(p)

\* the second iteration finds a failure without logs, after one correction
C11_Witness ==
    \E p \in Procs :
        /\ NoDiagnostics(p)
        /\ EmptyLogsObserved(p)
        /\ n_await_ci[p] = 2
        /\ n_commits[p] = 1
        /\ TheResult(p).final_status = "failure"

\* at least one correction has been adopted: committed and made the working
\* code (corrected_code holds the code of the latest correction)
Adopted(p) == n_commits[p] >= 1 /\ pc[p] \notin {"commit", "raised"}

\* C12: once a correction is adopted, the working code is exactly its
\* corrected_code: it is the code self_correct is called with in the next
\* iteration, and the corrected_code of the result when the next Await-CI
\* reports success; nothing of the earlier code is kept.
C12_RoundTrip ==
    \A p \in Procs :
        /\ Adopted(p) => current_code[p] = corrected_code[p]
        /\ (Adopted(p) /\ pc[p] = "self_correct") =>
                /\ n_self_correct[p] = n_commits[p] + 1
                /\ current_code[p] = corrected_code[p]
        /\ (Adopted(p) /\ Returned(p) /\ status[p].state = "success") =>
                /\ TheResult(p).success
                /\ TheResult(p).corrected_code = corrected_code[p]

\* success after two corrections, the second of which answered code1
C12_Witness ==
    \E p \in Procs :
        /\ Succeeded(p)
        /\ n_commits[p] = 2
        /\ corrected_code[p] = "code1"
        /\ TheResult(p).corrected_code = "code1"

\* each of the max_iterations Await-CI results was not success and each
\* get_check_logs result was non-empty (an earlier iteration is only left
\* towards the next one with non-empty logs)
AllRoundsFailedWithLogs(p) ==
    /\ max_iterations >= 1
    /\ n_await_ci[p] = max_iterations
    /\ n_get_logs[p] = max_iterations
    /\ raised[p] # "get_check_logs"
    /\ error_logs[p] # <<>>

\* C13: for max_iterations = N >= 1, when every Await-CI result is not success
\* and every get_check_logs result is non-empty, a loop that returns has
\* called self_correct N times and committed N times and returns Exhausted:
\* success=false, iterations=N, corrected_code the last adopted code,
\* error_logs the logs of the last iteration. Exhausted is returned in no
\* other case.
C13_Exhausted ==
    \A p \in Procs :
        /\ (AllRoundsFailedWithLogs(p) /\ Returned(p)) =>
            /\ Exhausted(p)
            /\ n_self_correct[p] = max_iterations
            /\ n_commits[p] = max_iterations
            /\ ~TheResult(p).success
            /\ TheResult(p).iterations = max_iterations
            /\ TheResult(p).corrected_code = corrected_code[p]
            /\ TheResult(p).error_logs = error_logs[p]
            /\ TheResult(p).final_status = "timeout"
        /\ (Exhausted(p) /\ max_iterations >= 1) => AllRoundsFailedWithLogs(p)

\* the three outcomes of a returned VerificationResult
OutcomeSucceeded(r) == r.success /\ r.final_status = "success" /\ r.error_message = ""
OutcomeExhausted(r) ==
    /\ ~r.success
    /\ r.error_message = "max iterations reached"
    /\ r.iterations = max_iterations
OutcomeHardFail(r) ==
    ~r.success /\ r.error_message = "CI failed but no specific error logs found"

ExactlyOneOutcome(r) ==
    Cardinality({o \in {"succeeded", "exhausted", "hard_fail"} :
        \/ o = "succeeded" /\ OutcomeSucceeded(r)
        \/ o = "exhausted" /\ OutcomeExhausted(r)
        \/ o = "hard_fail" /\ OutcomeHardFail(r)}) = 1

\* no collaborator call raises and nobody cancels the task
CallsReturn(p) == raised[p] = "" /\ cancel[p] = ""

\* C14: when every collaborator call returns (each Await-CI at the latest at
\* its poll timeout), the run terminates with a VerificationResult; a result
\* is returned once, its outcome is exactly one of Succeeded, Exhausted and
\* hard-fail, and after it no poll, no get_check_logs, no self_correct and no
\* commit happens and the result does not change.
C14_Terminates ==
    /\ <>(Returned(1) \/ ~CallsReturn(1))
    /\ [](\A p \in Procs :
            /\ Len(result[p]) <= 1
            /\ Returned(p) <=> Len(result[p]) = 1
            /\ Returned(p) => ExactlyOneOutcome(TheResult(p)))
    /\ [][\A p \in Procs : Returned(p) =>
            /\ result'[p] = result[p]
            /\ pc'[p] = pc[p]
            /\ n_await_ci'[p] = n_await_ci[p]
            /\ n_get_logs'[p] = n_get_logs[p]
            /\ n_self_correct'[p] = n_self_correct[p]
            /\ n_commits'[p] = n_commits[p]
            /\ branch_content' = branch_content]_vars

\* a run whose first Await-CI runs into its timeout, still pending, and whose
\* failure has no logs: the hard-fail outcome
C14_Witness ==
    \E p \in Procs :
        /\ Returned(p)
        /\ OutcomeHardFail(TheResult(p))
        /\ TheResult(p).final_status = "pending"
        /\ n_await_ci[p] = 1

\* the scenario of the specification: max_iterations = 2, two failures with logs
C13_Witness ==
    \E p \in Procs :
        /\ max_iterations = 2
        /\ AllRoundsFailedWithLogs(p)
        /\ Exhausted(p)
        /\ n_self_correct[p] = 2
        /\ n_commits[p] = 2
        /\ TheResult(p).iterations = 2

\* C22, as stated: get_check_logs is called (and with it a correction
\* requested and committed) only in an iteration whose awaited CI state is
\* failure or error; for a status that is still pending when the poll timeout
\* has elapsed the loop collects no failure logs.
C22_InspectOnlyFailures ==
    [][\A p \in Procs :
        n_get_logs'[p] # n_get_logs[p] => status[p].state \in {"failure", "error"}]_vars

\* wait_for_ci_completion returns to the loop in this step
AwaitReturns(p) == pc[p] = "await_ci" /\ pc'[p] = "check_status"

C24_MissingFieldKeepsCode ==
    \A p \in Procs :
        (pc[p] = "commit" /\ ~has_corrected_code[p]) =>
            corrected_code[p] = current_code[p]

\* the invocation is inside run_verification_loop
InLoop(p) == pc[p] \notin {"idle", "returned", "raised"}

\* C27: with a single loop on the branch, the corrected_code of every
\* returned VerificationResult is the content the loop committed last, the
\* initial code if it committed nothing; while the loop runs, its working
\* code is the content of the branch.
C27_ResultIsBranchContent ==
    \A p \in Procs :
        /\ Returned(p) =>
            /\ TheResult(p).corrected_code = branch_content
            /\ n_commits[p] = 0 => TheResult(p).corrected_code = OriginalCode
            /\ n_commits[p] >= 1 => TheResult(p).corrected_code = corrected_code[p]
        /\ InLoop(p) => current_code[p] = branch_content

\* a hard-fail return after two commits, the second of code2
C27_Witness ==
    \E p \in Procs :
        /\ NoDiagnostics(p)
        /\ n_commits[p] = 2
        /\ branch_content = "code2"
        /\ TheResult(p).corrected_code = "code2"

\* the step calls wait_for_ci_completion / calls commit_file_changes /
\* is a call of commit_file_changes that returns
AwaitInvoked(p) == n_await_ci'[p] = n_await_ci[p] + 1
CommitCalled(p) == n_commits'[p] = n_commits[p] + 1
CommitMade(p) == CommitCalled(p) /\ pc'[p] # "raised"

\* C28: a run that ends Exhausted (max_iterations >= 1) has invoked Await-CI
\* exactly max_iterations times; each Await-CI is invoked with every earlier
\* commit already made and each commit leads to the settle delay, and the
\* Exhausted return is taken at the loop test with as many commits as Await-CI
\* invocations: the last commit is followed by no Await-CI, and the returned
\* corrected_code is that commit's content.
C28_LastCommitUnobserved ==
    [][\A p \in Procs :
        /\ AwaitInvoked(p) =>
            /\ n_commits[p] = n_await_ci[p]
            /\ n_commits'[p] = n_commits[p]
        /\ CommitCalled(p) =>
            /\ n_commits[p] = n_await_ci[p] - 1
            /\ n_await_ci'[p] = n_await_ci[p]
        /\ CommitMade(p) =>
            /\ pc'[p] = "settle"
            /\ branch_content' = corrected_code[p]
        /\ pc[p] = "settle" => ~AwaitInvoked(p) /\ ~CommitCalled(p)
        /\ (Exhausted(p)' /\ ~Exhausted(p) /\ max_iterations >= 1) =>
            /\ pc[p] = "loop_test"
            /\ n_await_ci[p] = max_iterations
            /\ n_commits[p] = max_iterations
            /\ UNCHANGED <<n_await_ci, n_commits, branch_content>>
            /\ TheResult(p)'.corrected_code = branch_content
            /\ TheResult(p)'.corrected_code = corrected_code[p]
    ]_vars

\* Exhausted after three rounds, the third commit being of code2
C28_Witness ==
    \E p \in Procs :
        /\ Exhausted(p)
        /\ max_iterations = MaxIterationsBound
        /\ n_await_ci[p] = max_iterations
        /\ n_commits[p] = max_iterations
        /\ branch_content = "code2"

\* the per-check entries (commit statuses, then check runs) of a status
FailedEntries(s) ==
    {k \in 1..Len(s.statuses) : s.statuses[k] \in {"failure", "error"}}

\* C29, as stated: when the loop returns success=true, the CI status it
\* observed last has no per-check entry (commit status or check run) whose
\* state is failure or error.
C29_SuccessHasNoFailedCheck ==
    \A p \in Procs : Succeeded(p) => FailedEntries(status[p]) = {}

\* the operations of the Repository Gateway that change nothing
ReadOperations == {"wait_for_ci_completion", "get_check_logs"}

\* the write the loop was started for
LoopWrite ==
    GithubCall("commit_file_changes", <<LoopArgs.branch, LoopArgs.file_path>>)

\* the step returns Succeeded or Failed(no diagnostics)
EndsWithoutCorrection(p) ==
    /\ ~Returned(p)
    /\ Succeeded(p)' \/ NoDiagnostics(p)'

\* C30: every call the loop makes on the Repository Gateway is a read or
\* commit_file_changes on the branch and file_path it was started with (no
\* branch or pull request is created, closed or deleted, no other path or
\* branch written); the branch content changes only in a step in which
\* commit_file_changes returns; an iteration that ends in Succeeded or in
\* Failed(no diagnostics) has called no write.
C30_OnlyWriteIsCommit ==
    [][/\ \A p \in Procs :
            /\ \A c \in github_calls'[p] :
                    c.operation \in ReadOperations \/ c = LoopWrite
            /\ github_calls[p] \subseteq github_calls'[p]
            /\ EndsWithoutCorrection(p) =>
                /\ n_commits[p] = n_await_ci[p] - 1
                /\ \A c \in github_calls'[p] \ github_calls[p] :
                        c.operation \in ReadOperations
                /\ UNCHANGED <<n_commits, branch_content>>
       /\ branch_content' # branch_content => \E p \in Procs : CommitMade(p)
       /\ UNCHANGED <<calls, api_ops, pull_attempts>>
    ]_vars

\* success in the second round, after the one commit of the first round
C30_Witness ==
    \E p \in Procs :
        /\ Succeeded(p)
        /\ n_await_ci[p] = 2
        /\ LoopWrite \in github_calls[p]
        /\ branch_content = corrected_code[p]

(***************************************************************************)
(* Claims about the Fix Pipeline                                           *)
(***************************************************************************)
Done == fpc = "done"
TheResponse == response[1]
Called(operation) == \E i \in 1..Len(calls) : calls[i][2] = operation
CallsOf(operation) == {i \in 1..Len(calls) : calls[i][2] = operation}
NoRepositoryWrite ==
    /\ ~Called("create_branch")
    /\ ~Called("commit_file_changes")
    /\ ~Called("create_pull_request")
    /\ api_ops = <<>>

\* C6: a request with no video, no images and no deployed URL fails with
\* HTTP 400 (InvalidInput); no gateway has been called and no temp directory
\* has been created.
C6_NoVisualInput ==
    (video = <<>> /\ images = <<>> /\ deployed_url = <<>>) =>
        /\ calls = <<>>
        /\ temp_dir = "none"
        /\ fpc \in {"validate", "done"}
        /\ Done => /\ TheResponse.kind = "HTTPException"
                   /\ TheResponse.status_code = 400
                   /\ TheResponse.detail = "At least one visual input required"

C6_Witness ==
    /\ video = <<>> /\ images = <<>> /\ deployed_url = <<>>
    /\ Done
    /\ TheResponse.status_code = 400

\* the analysis step has produced a result
Analysed == analysis_result # NoAnalysis
\* the fix is absent, or its file_path or its code is missing or empty
FixIncomplete ==
    \E k \in {"file_path", "code"} :
        k \notin DOMAIN analysis_result.fix \/ analysis_result.fix[k] = ""

\* C7: when the fix of the analysis result is absent or has an empty
\* file_path or code, the run returns status success without a pr_url, and
\* no create_branch, commit_file_changes or create_pull_request call is made.
C7_NoActionableFix ==
    (Analysed /\ FixIncomplete) =>
        /\ NoRepositoryWrite
        /\ fpc \in {"validate_fix", "done"}
        /\ Done => /\ TheResponse.kind = "AnalyzeResponse"
                   /\ TheResponse.status = "success"
                   /\ TheResponse.pr_url = <<>>

\* a fix with a file_path and no code
C7_Witness ==
    /\ Analysed
    /\ "file_path" \in DOMAIN analysis_result.fix
    /\ analysis_result.fix["file_path"] # ""
    /\ FixIncomplete
    /\ Done
    /\ TheResponse.status = "success"

\* the exception carries the 403/forbidden signal by which a permission
\* error is told from the others
PermissionSignal(e) ==
    \E i \in 1..Len(e.text) : e.text[i] \in {"403", "forbidden", "Forbidden"}

MainFailed == Len(branch_results) >= 1 /\ branch_results[1] # <<>>
MainFailedWith(signal) == MainFailed /\ PermissionSignal(branch_results[1][1]) = signal

BranchBases == {calls[i][3] : i \in CallsOf("create_branch")}
RefBases == {api_ops[i][2] : i \in {j \in 1..Len(api_ops) : api_ops[j][1] = "create_git_ref"}}

C9_PermissionDenied ==
    MainFailedWith(TRUE) =>
        /\ Done
        /\ TheResponse.kind = "HTTPException"
        /\ TheResponse.status_code = 403
        /\ Len(branch_results) = 1
        /\ BranchBases = {"main"}
        /\ ~Called("commit_file_changes")
        /\ ~Called("create_pull_request")

C9_Witness ==
    /\ Len(branch_results) = 1
    /\ branch_results[1] = <<ErrForbidden>>
    /\ Done
    /\ TheResponse.status_code = 403

\* what the collaborator lookup inside check_write_access came to, for the
\* i-th gateway call
AccessLookup(i) == outcomes[i]

\* C15, as stated: in the write-access step only an explicit negative answer
\* aborts the run (HTTP 403); when the gateway hits an error while checking
\* access, the run is not aborted and goes on to scouting.
C15_AccessSoftFail ==
    \A i \in CallsOf("check_write_access") :
        /\ AccessLookup(i) = "not_collaborator" =>
                /\ Done
                /\ TheResponse.status_code = 403
                /\ Len(calls) = i
        /\ AccessLookup(i) = "error" => (fpc = "scout" \/ Called("scout_files"))

\* the capture gateway was called and raised
CaptureRaised ==
    \E i \in CallsOf("capture_visual_context") : outcomes[i] = "raised"

UploadedImages == SelectSeq(images, NonEmpty)

\* C16: when the capture gateway raises for the supplied URL, the run does not
\* end at that step: it goes on to save the uploads, its image paths are
\* exactly the uploaded images (no captured screenshot among them), and every
\* response it returns carries screenshots_captured = None.
C16_CaptureNonFatal ==
    CaptureRaised =>
        /\ screenshots_captured = <<>>
        /\ \A j \in 1..Len(image_paths) : ~InSeq(image_paths[j], CapturedScreenshots)
        /\ IF fpc = "save_uploads" THEN image_paths = <<>>
                                   ELSE image_paths = UploadedImages
        /\ Len(calls) = 1 =>
                \/ fpc \in {"save_uploads", "services"}
                \/ Done /\ TheResponse.detail = "No GitHub token available"
        /\ (Done /\ TheResponse.kind = "AnalyzeResponse") =>
                TheResponse.screenshots_captured = <<>>

\* the scenario of the specification: the capture raises while two images are
\* uploaded, and the run goes as far as the pull request
C16_Witness ==
    /\ CaptureRaised
    /\ image_paths = <<"a.png", "b.png">>
    /\ Done
    /\ TheResponse.kind = "AnalyzeResponse"
    /\ TheResponse.pr_url # <<>>
    /\ TheResponse.screenshots_captured = <<>>

\* the analysis capability of the Reasoning Gateway has been called
AnalysisCalled == Called("analyze_vibe") \/ Called("analyze_video_frames")

\* the for loop over the scouted paths has run to its end
FetchLoopOver ==
    /\ \E i \in CallsOf("scout_files") : outcomes[i] = "returned"
    /\ \A i \in CallsOf("get_file_content") : outcomes[i] = "returned"
    /\ fpc # "fetch"

\* C17: when none of the first 10 scouted paths resolves to non-empty content,
\* the run fails with HTTP 400 (NoContext) without any analysis call and
\* without repository write; every analysis call is made with a code context
\* of 1 to 10 entries, whose keys are distinct, are among the first 10 scouted
\* paths and have content in the repository.
C17_NoContext ==
    /\ Len(code_context) <= MaxContextFiles
    /\ Cardinality(CallsOf("get_file_content")) <= MaxContextFiles
    /\ \A k \in 1..Len(code_context) :
            /\ \E i \in 1..MaxContextFiles :
                    i <= Len(relevant_files) /\ relevant_files[i] = code_context[k]
            /\ code_context[k] \in repo_files
            /\ \A l \in 1..Len(code_context) : code_context[l] = code_context[k] => l = k
    /\ AnalysisCalled => Len(code_context) >= 1
    /\ (FetchLoopOver /\ code_context = <<>>) =>
            /\ Done
            /\ TheResponse.kind = "HTTPException"
            /\ TheResponse.status_code = 400
            /\ TheResponse.detail = "Could not fetch any relevant code files"
            /\ ~AnalysisCalled
            /\ NoRepositoryWrite

\* the scout names every path, only the last one has content: the first 10
\* are fetched and the run ends with NoContext
C17_Witness ==
    /\ Len(relevant_files) = NumPaths
    /\ repo_files = {NumPaths}
    /\ Cardinality(CallsOf("get_file_content")) = MaxContextFiles
    /\ FetchLoopOver
    /\ Done
    /\ TheResponse.status_code = 400

\* the calls of an operation that returned without raising
Successful(operation) == {i \in CallsOf(operation) : outcomes[i] = "returned"}

\* the run returned a response with a pr_url
Committed ==
    Done /\ TheResponse.kind = "AnalyzeResponse" /\ TheResponse.pr_url # <<>>

\* C18: a run that returns Committed has made exactly one successful
\* create_branch call, then exactly one commit_file_changes call, then exactly
\* one successful create_pull_request call, in that order; in every other
\* case no pull request has been created and at most one branch and one
\* commit.
C18_OneBranchCommitPR ==
    /\ Cardinality(Successful("create_branch")) <= 1
    /\ Cardinality(CallsOf("commit_file_changes")) <= 1
    /\ Cardinality(CallsOf("create_pull_request")) <= 1
    /\ Successful("create_pull_request") # {} <=> Committed
    /\ \A c \in CallsOf("commit_file_changes") :
            \E b \in Successful("create_branch") : b < c
    /\ \A q \in CallsOf("create_pull_request") :
            \E c \in Successful("commit_file_changes") : c < q
    /\ Committed =>
            /\ Cardinality(Successful("create_branch")) = 1
            /\ Cardinality(Successful("commit_file_changes")) = 1
            /\ Cardinality(Successful("create_pull_request")) = 1

\* Committed after the branch was created from master at the second attempt
C18_Witness ==
    /\ Committed
    /\ Len(branch_results) = 2
    /\ Cardinality(CallsOf("create_branch")) = 2
    /\ Cardinality(Successful("create_branch")) = 1

\* the calls of an operation that raised
Failing(operation) == {i \in CallsOf(operation) : outcomes[i] = "raised"}

\* the platform operations by which the write calls create something
CreatingOps == {"get_git_ref", "create_git_ref", "update_file", "create_file",
                "create_pull"}

\* C19: when commit_file_changes or create_pull_request raises after the
\* branch was created, the run ends Failed (HTTP 500 with the detail of the
\* commit step, of the pull-request step) and the failing call is the last
\* thing done to the repository: no later gateway call, and no platform
\* operation that deletes or rewrites the branch or the commit.
C19_NoRollback ==
    \A operation \in {"commit_file_changes", "create_pull_request"} :
        \A i \in Failing(operation) :
            /\ Cardinality(Successful("create_branch")) = 1
            /\ operation = "create_pull_request" =>
                    Cardinality(Successful("commit_file_changes")) = 1
            /\ Done
            /\ TheResponse.kind = "HTTPException"
            /\ TheResponse.status_code = 500
            /\ TheResponse.detail = IF operation = "commit_file_changes"
                                      THEN "Failed to commit changes"
                                      ELSE "Failed to create pull request"
            /\ Len(calls) = i
            /\ \A j \in 1..Len(api_ops) : api_ops[j][1] \in CreatingOps

\* the pull request fails after the commit was made
C19_Witness ==
    /\ Failing("create_pull_request") # {}
    /\ Cardinality(Successful("commit_file_changes")) = 1
    /\ Done
    /\ TheResponse.detail = "Failed to create pull request"

\* the gateway calls whose failure ends the run: all but the capture, whose
\* failure is skipped, and the create_branch against main, which is retried
FatalCalls ==
    {i \in 1..Len(calls) :
        /\ calls[i][2] # "capture_visual_context"
        /\ ~(calls[i][2] = "create_branch" /\ calls[i][3] = "main")
        /\ calls[i][2] # "check_write_access"}

GenericError == "An unexpected error occurred"

\* C20, as stated: a failing step ends the run with the error kind declared
\* for that step and no later step is executed; no failure reaches the caller
\* as the generic 'unexpected error'.
C20_DeclaredErrorKinds ==
    /\ \A i \in FatalCalls :
            outcomes[i] = "raised" =>
                /\ Done
                /\ Len(calls) = i
                /\ TheResponse.kind = "HTTPException"
                /\ TheResponse.detail # GenericError
    /\ (Done /\ TheResponse.kind = "HTTPException") => TheResponse.detail # GenericError

\* a captured screenshot, a saved uploaded image or a saved uploaded video
VisualInputPresent ==
    \/ screenshots_captured # <<>> /\ screenshots_captured[1] # <<>>
    \/ image_paths # <<>>
    \/ video_path # <<>>

\* C25, as stated: whenever the run has passed the capture and upload steps
\* and goes on, in particular to the analysis call, at least one visual input
\* is present; a run in which none is present fails with HTTP 400
\* (InvalidInput).
C25_AnalysisHasVisualInput ==
    /\ AnalysisCalled => VisualInputPresent
    /\ (fpc \notin {"validate", "capture", "save_uploads"} /\ ~VisualInputPresent) =>
            /\ Done
            /\ TheResponse.status_code = 400
            /\ TheResponse.detail = "At least one visual input required"

\* the create_pull operation number k failed
AttemptFailed(k) ==
    k >= 1 /\ k <= Len(pull_attempts) /\ pull_attempts[k].err # <<>>

\* at most two create_pull operations, the first against main, the second
\* against master; after a failed second one the run ends with PRFailure
TwoAttemptsAtMost ==
    /\ Len(pull_attempts) <= 2
    /\ Len(pull_attempts) >= 1 => pull_attempts[1].base = "main"
    /\ Len(pull_attempts) = 2 => pull_attempts[2].base = "master"
    /\ AttemptFailed(Len(pull_attempts)) =>
            /\ Done
            /\ TheResponse.status_code = 500
            /\ TheResponse.detail = "Failed to create pull request"
    /\ (Len(pull_attempts) >= 1 /\ ~AttemptFailed(Len(pull_attempts))) => Committed

\* C26, as stated: the pull request is first attempted with base main; if
\* and only if that attempt fails, exactly one further attempt is made, with
\* base master; if that fails too the run ends with PRFailure; no run makes
\* more than two attempts or one with another base.
C26_RetryOnFailure ==
    /\ TwoAttemptsAtMost
    /\ AttemptFailed(1) <=> Len(pull_attempts) = 2

\* C26, amended: the further attempt with base master is made if and only if
\* the attempt with base main fails with an error of the hosting platform's
\* API (GithubException); when it fails with any other exception, such as a
\* connection error, no further attempt is made and the run ends with
\* PRFailure. The rest is as stated.
C26_RetryOnPlatformError ==
    /\ TwoAttemptsAtMost
    /\ (AttemptFailed(1) /\ pull_attempts[1].err[1].exc = "GithubException")
            <=> Len(pull_attempts) = 2
    /\ (AttemptFailed(1) /\ pull_attempts[1].err[1].exc # "GithubException") =>
            /\ Len(pull_attempts) = 1
            /\ Done
            /\ TheResponse.status_code = 500
            /\ TheResponse.detail = "Failed to create pull request"

\* the attempt with main fails with a platform error and the one with master
\* fails too
C26_Witness ==
    /\ Len(pull_attempts) = 2
    /\ AttemptFailed(1)
    /\ AttemptFailed(2)
    /\ Done
    /\ TheResponse.detail = "Failed to create pull request"

(***************************************************************************)
(* Claims about the service singletons                                     *)
(***************************************************************************)
\* C21, as stated: the Verification Loop service a request obtains through
\* get_verification_service(github_service, gemini_service) operates on the
\* gateways passed in that call: its GitHub gateway carries the credential
\* of that request, never that of an earlier one.
C21_OwnCredentials ==
    \A r \in Requests :
        req_service[r] # <<>> =>
            /\ req_service[r][1].github = req_github[r][1]
            /\ req_service[r][1].github.token = TokenOf(r)

====
